---- MODULE Spec2Model ----
(***************************************************************************)
(* Model of the Sentinel-2 snow pipeline: RGB-NDSI.py (band stacking loop, *)
(* true-color render loop, false-color render loop) and App.py (viewer).   *)
(*                                                                         *)
(* Strings are sequences of one-character strings, so that str.replace,    *)
(* str.endswith, os.path.join and the path separators of the platform are  *)
(* computed and not assumed.  A file system maps a resolved path (a        *)
(* sequence of components) to an entry [kind, data].  A band is the        *)
(* flattened grid of its samples (Sentinel-2 tiles are unsigned, so        *)
(* band - band.min() cannot wrap).  A quotient a / b of the script is the  *)
(* pair <<a, b>>; a zero denominator is the NaN numpy yields for 0 / 0.    *)
(* A power x ** e is kept as [base |-> x, exp |-> e].  plt.show and the    *)
(* print calls have no effect on the state and are left out.               *)
(***************************************************************************)
EXTENDS Integers, Sequences, FiniteSets, TLC

VARIABLES platform, cwd, fs, phase, listing, idx, runs, log, fsStart,
          month, images, band, normalized

vars == <<platform, cwd, fs, phase, listing, idx, runs, log, fsStart,
          month, images, band, normalized>>

(***************************************************************************)
(* Bounds                                                                  *)
(***************************************************************************)
\* number of times the script is run in one behaviour
MaxRuns == 2
\* samples per band and largest sample value of the normalization inputs
NPix == 3
MaxVal == 3
\* at most this many rasters are left in ./Results from before the first run
MaxStale == 1

(***************************************************************************)
(* Strings                                                                 *)
(***************************************************************************)
\* the characters of the names in code-point order (sorted() compares them)
Alphabet ==
    <<".", "/", "0", "1", "2", "3", "4", "5", "6", "7", "8", "9", ":",
      "A", "B", "C", "D", "E", "F", "G", "H", "I", "J", "K", "L", "M",
      "N", "O", "P", "Q", "R", "S", "T", "U", "V", "W", "X", "Y", "Z",
      "\\", "_",
      "a", "b", "c", "d", "e", "f", "g", "h", "i", "j", "k", "l", "m",
      "n", "o", "p", "q", "r", "s", "t", "u", "v", "w", "x", "y", "z">>

Ord(c) == CHOOSE i \in 1..Len(Alphabet) : Alphabet[i] = c

RECURSIVE StrLess(_, _)
StrLess(a, b) ==
    IF b = <<>> THEN FALSE
    ELSE IF a = <<>> THEN TRUE
    ELSE IF a[1] = b[1] THEN StrLess(Tail(a), Tail(b))
    ELSE Ord(a[1]) < Ord(b[1])

\* sorted(names)
RECURSIVE sorted(_)
sorted(S) ==
    IF S = {} THEN <<>>
    ELSE LET m == CHOOSE x \in S : \A y \in S \ {x} : StrLess(x, y)
         IN  <<m>> \o sorted(S \ {m})

StartsWith(s, prefix) ==
    /\ Len(s) >= Len(prefix)
    /\ SubSeq(s, 1, Len(prefix)) = prefix

\* s.endswith(suffix)
endswith(s, suffix) ==
    /\ Len(s) >= Len(suffix)
    /\ SubSeq(s, Len(s) - Len(suffix) + 1, Len(s)) = suffix

\* s.replace(old, new): every non-overlapping occurrence, left to right
RECURSIVE replace(_, _, _)
replace(s, old, new) ==
    IF s = <<>> THEN <<>>
    ELSE IF StartsWith(s, old)
         THEN new \o replace(SubSeq(s, Len(old) + 1, Len(s)), old, new)
         ELSE <<s[1]>> \o replace(Tail(s), old, new)

(***************************************************************************)
(* Paths                                                                   *)
(***************************************************************************)
\* the root of an absolute path ("/" or a drive), one token
RootTok == "ROOT:"

Platforms == {"posix", "nt"}

\* os.sep, and the characters the platform splits a path at
Sep == IF platform = "nt" THEN "\\" ELSE "/"
Seps == IF platform = "nt" THEN {"\\", "/"} ELSE {"/"}

\* os.path.join(a, b) for a relative b
join(a, b) == a \o <<Sep>> \o b

RECURSIVE SplitFrom(_, _, _)
SplitFrom(s, i, cur) ==
    IF i > Len(s)
    THEN IF cur = <<>> THEN <<>> ELSE <<cur>>
    ELSE IF s[i] \in Seps
         THEN (IF cur = <<>> THEN <<>> ELSE <<cur>>) \o SplitFrom(s, i + 1, <<>>)
         ELSE SplitFrom(s, i + 1, Append(cur, s[i]))

Components(s) == SelectSeq(SplitFrom(s, 1, <<>>), LAMBDA c : c # <<".">>)

\* the file a path string names: absolute as it is, relative under the cwd
Resolve(s) ==
    IF s # <<>> /\ s[1] = RootTok
    THEN Components(s)
    ELSE Components(cwd) \o Components(s)

(***************************************************************************)
(* File system                                                             *)
(***************************************************************************)
DirEntry == [kind |-> "dir", data |-> <<>>]

exists(f, p) == p \in DOMAIN f
isdir(f, p) == p \in DOMAIN f /\ f[p].kind = "dir"

\* os.listdir(d)
listdir(f, d) ==
    { p[Len(d) + 1] :
        p \in { q \in DOMAIN f : Len(q) = Len(d) + 1 /\ SubSeq(q, 1, Len(d)) = d } }

\* os.makedirs(p, exist_ok=True)
makedirs(f, p) ==
    [q \in DOMAIN f \cup { SubSeq(p, 1, k) : k \in 1..Len(p) } |->
        IF q \in DOMAIN f THEN f[q] ELSE DirEntry]

\* a write that appends to a file that is there
WriteFile_append(f, p, c) ==
    [q \in DOMAIN f \cup {p} |->
        IF q = p
        THEN IF p \in DOMAIN f
             THEN [kind |-> c.kind, data |-> f[p].data \o c.data]
             ELSE c
        ELSE f[q]]

\* opening p for writing and writing c: creates or replaces the file
WriteFile(f, p, c) ==
    [q \in DOMAIN f \cup {p} |-> IF q = p THEN c ELSE f[q]]

FsOf(pairs) ==
    [p \in { e[1] : e \in pairs } |-> (CHOOSE e \in pairs : e[1] = p)[2]]

(***************************************************************************)
(* RGB-NDSI.py: names and constants                                        *)
(***************************************************************************)
script_dir == <<RootTok, "s">>
OtherDir == <<RootTok, "w">>

base_dir == join(join(script_dir, <<"d", "a", "t", "a">>),
                 <<"S", "e", "n", "t", "i", "n", "e", "l">>)
stack_output_dir == join(script_dir, <<"R", "e", "s", "u", "l", "t", "s">>)

bands ==
    << <<"B", "2", ".", "j", "p", "2">>,
       <<"B", "3", ".", "j", "p", "2">>,
       <<"B", "4", ".", "j", "p", "2">>,
       <<"B", "8", ".", "j", "p", "2">>,
       <<"B", "1", "1", ".", "j", "p", "2">> >>

input_dir == <<".", "/", "R", "e", "s", "u", "l", "t", "s">>
rgb_output_dir == <<".", "/", "R", "e", "s", "u", "l", "t", "s", "/", "R", "G", "B">>
fc_output_dir ==
    <<".", "/", "R", "e", "s", "u", "l", "t", "s", "/",
      "F", "a", "l", "s", "e", "C", "o", "l", "o", "r">>

TifExt == <<".", "t", "i", "f">>
RgbSuffix == <<"_", "R", "G", "B", ".", "p", "n", "g">>
FcSuffix == <<"_", "F", "a", "l", "s", "e", "C", "o", "l", "o", "r", ".", "p", "n", "g">>

\* the true-color cell placed before the stacking cell
Phases_rgb_first == <<"rgb", "stack", "fc">>

\* the order of the three cells of the script
Phases == <<"stack", "rgb", "fc">>

pc == IF phase = 0 THEN "idle"
      ELSE IF phase > Len(Phases) THEN "done"
      ELSE Phases[phase]


PhaseAt(k) == IF k > Len(Phases) THEN "done" ELSE Phases[k]

(***************************************************************************)
(* Arithmetic of the render loops                                          *)
(***************************************************************************)
Min(S) == CHOOSE x \in S : \A y \in S : x <= y
Max(S) == CHOOSE x \in S : \A y \in S : x >= y
Range(b) == { b[p] : p \in DOMAIN b }

RMul(x, y) == <<x[1] * y[1], x[2] * y[2]>>
RInv(x) == <<x[2], x[1]>>

\* np.clip(x, 0, 1); NaN stays NaN
clip01(x) ==
    IF x[2] = 0 THEN x
    ELSE IF x[1] > x[2] THEN <<1, 1>>
    ELSE IF x[1] < 0 THEN <<0, 1>>
    ELSE x

\* a normalization that divides by band_max
normalize_band_by_max(b) ==
    LET band_min == Min(Range(b))
        band_max == Max(Range(b))
    IN  [p \in DOMAIN b |-> <<b[p] - band_min, band_max>>]

\* normalize_band(band): (band - band_min) / (band_max - band_min)
normalize_band(b) ==
    LET band_min == Min(Range(b))
        band_max == Max(Range(b))
    IN  [p \in DOMAIN b |-> <<b[p] - band_min, band_max - band_min>>]

\* np.stack([x, y, z], axis=-1)
stack3(x, y, z) == [p \in DOMAIN x |-> <<x[p], y[p], z[p]>>]

\* the helper with its own defaults (brightness_factor=1, gamma=2)
apply_brightness_gamma_defaults(rgb_image, bf, g) ==
    [p \in DOMAIN rgb_image |->
        [c \in 1..3 |-> [base |-> clip01(RMul(rgb_image[p][c], <<1, 1>>)),
                         exp  |-> RInv(<<2, 1>>)]]]

\* apply_brightness_gamma(rgb_image, brightness_factor, gamma)
apply_brightness_gamma(rgb_image, bf, g) ==
    [p \in DOMAIN rgb_image |->
        [c \in 1..3 |-> [base |-> clip01(RMul(rgb_image[p][c], bf)),
                         exp  |-> RInv(g)]]]

\* brightness_factor = 1.2, gamma = 2.2 of the true-color loop
brightness_factor == <<12, 10>>
gamma == <<22, 10>>

(***************************************************************************)
(* Inputs                                                                  *)
(***************************************************************************)
\* candidate entries of data/Sentinel
MonthDirNames == { <<"B">>, <<"M", "a", "y">>, <<"a", ".", "t", "i", "f">> }

\* what an entry of data/Sentinel is: nothing, a regular file, a month
\* directory with all five bands ("full"; "const" has two constant bands
\* and one more file), or a month directory with a band missing
EntryKinds == {"absent", "file", "full", "const", "noB8"}

ExtraFile == <<"B", "1", ".", "j", "p", "2">>

PresentBands(kind) ==
    IF kind = "noB8" THEN {1, 2, 3, 5} ELSE {1, 2, 3, 4, 5}

SceneA == << <<0, 5, 10>>, <<3, 3, 7>>, <<10, 9, 0>>, <<1, 2, 4>>, <<6, 0, 6>> >>
SceneB == << <<4, 4, 4>>, <<0, 1, 2>>, <<7, 7, 7>>, <<2, 9, 5>>, <<1, 1, 0>> >>
StaleScene == << <<8, 0, 1>>, <<2, 6, 2>>, <<0, 4, 9>>, <<5, 5, 1>>, <<3, 0, 0>> >>

Scene(kind) == IF kind = "const" THEN SceneB ELSE SceneA

MonthPairs(n, kind) ==
    LET mp == Resolve(join(base_dir, n))
    IN  CASE kind = "absent" -> {}
          [] kind = "file"   -> { <<mp, [kind |-> "file", data |-> <<>>]>> }
          [] OTHER ->
               { <<mp, DirEntry>> }
               \cup { <<mp \o <<bands[i]>>, [kind |-> "jp2", data |-> Scene(kind)[i]]>> :
                        i \in PresentBands(kind) }
               \cup (IF kind = "const"
                     THEN { <<mp \o <<ExtraFile>>, [kind |-> "jp2", data |-> <<9, 9, 9>>]>> }
                     ELSE {})

DirPairs(p) == { <<SubSeq(p, 1, k), DirEntry>> : k \in 1..Len(p) }

InitPairs(kinds, stale) ==
        ( DirPairs(Resolve(base_dir))
          \cup DirPairs(Resolve(cwd))
          \cup UNION { MonthPairs(n, kinds[n]) : n \in MonthDirNames }
          \cup (IF stale = {} THEN {} ELSE DirPairs(Resolve(input_dir)))
          \cup { <<Resolve(join(input_dir, n \o TifExt)),
                   [kind |-> "tif", data |-> StaleScene]>> : n \in stale } )

Init ==
    /\ platform \in Platforms
    /\ cwd \in {script_dir, OtherDir}
    /\ \E kinds \in [MonthDirNames -> EntryKinds] :
       \E stale \in { S \in SUBSET MonthDirNames : Cardinality(S) <= MaxStale } :
       \E pairs \in { InitPairs(kinds, stale) } :
          fs = FsOf(pairs)
    /\ phase = 0
    /\ listing = <<>>
    /\ idx = 1
    /\ runs = 0
    /\ log = <<>>
    /\ fsStart = fs
    /\ month = 0
    /\ images = <<>>
    /\ band = <<>>
    /\ normalized = <<>>

(***************************************************************************)
(* RGB-NDSI.py: the script                                                 *)
(***************************************************************************)
\* what a cell does before its loop: makedirs, then sorted(os.listdir(...))
PreambleFs(p, f) ==
    CASE p = "stack" -> makedirs(f, Resolve(stack_output_dir))
      [] p = "rgb"   -> makedirs(f, Resolve(rgb_output_dir))
      [] p = "fc"    -> makedirs(f, Resolve(fc_output_dir))
      [] OTHER       -> f

\* a listing that loses its last entry
PreambleListing_short(p, f) ==
    LET full == CASE p = "stack" -> sorted(listdir(f, Resolve(base_dir)))
                  [] p = "rgb"   -> sorted(listdir(f, Resolve(input_dir)))
                  [] p = "fc"    -> sorted(listdir(f, Resolve(input_dir)))
                  [] OTHER       -> <<>>
    IN  IF p \in {"rgb", "fc"} /\ full # <<>>
        THEN SubSeq(full, 1, Len(full) - 1)
        ELSE full

PreambleListing(p, f) ==
    CASE p = "stack" -> sorted(listdir(f, Resolve(base_dir)))
      [] p = "rgb"   -> sorted(listdir(f, Resolve(input_dir)))
      [] p = "fc"    -> sorted(listdir(f, Resolve(input_dir)))
      [] OTHER       -> <<>>

Enter(k) ==
    /\ phase' = k
    /\ fs' = PreambleFs(PhaseAt(k), fs)
    /\ listing' = PreambleListing(PhaseAt(k), PreambleFs(PhaseAt(k), fs))
    /\ idx' = 1

\* python RGB-NDSI.py, once more after a run has ended
StartRun ==
    /\ pc \in {"idle", "done"}
    /\ runs < MaxRuns
    /\ month = 0
    /\ runs' = runs + 1
    /\ log' = <<>>
    /\ fsStart' = fs
    /\ Enter(1)
    /\ UNCHANGED <<platform, cwd, month, images, band, normalized>>

InLoop(p) == pc = p /\ idx <= Len(listing)

\* ---- band stacking loop ----
month_folder == listing[idx]
month_path == join(base_dir, month_folder)

\* band paths taken from the sorted directory listing
band_paths_listed ==
    LET names == sorted(listdir(fs, Resolve(month_path)))
    IN  [i \in 1..Len(names) |-> join(month_path, names[i])]

band_paths ==
    SelectSeq([i \in 1..Len(bands) |-> join(month_path, bands[i])],
              LAMBDA bp : exists(fs, Resolve(bp)))

output_tiff == join(stack_output_dir, month_folder \o TifExt)

\* if not os.path.isdir(month_path): continue
StackSkipFile ==
    /\ InLoop("stack")
    /\ ~isdir(fs, Resolve(month_path))
    /\ idx' = idx + 1
    /\ UNCHANGED <<platform, cwd, fs, phase, listing, runs, log, fsStart,
                   month, images, band, normalized>>

\* break in place of continue
StackSkipMissing_break ==
    /\ InLoop("stack")
    /\ isdir(fs, Resolve(month_path))
    /\ Len(band_paths) # Len(bands)
    /\ idx' = Len(listing) + 1
    /\ UNCHANGED <<platform, cwd, fs, phase, listing, runs, log, fsStart,
                   month, images, band, normalized>>

\* if len(band_paths) != len(bands): continue
StackSkipMissing ==
    /\ InLoop("stack")
    /\ isdir(fs, Resolve(month_path))
    /\ Len(band_paths) # Len(bands)
    /\ idx' = idx + 1
    /\ UNCHANGED <<platform, cwd, fs, phase, listing, runs, log, fsStart,
                   month, images, band, normalized>>

\* the raster: band idx is src.read(1) of band_paths[idx]
StackedRaster ==
    [kind |-> "tif",
     data |-> [i \in 1..Len(band_paths) |-> fs[Resolve(band_paths[i])].data]]

StackWrite ==
    /\ InLoop("stack")
    /\ isdir(fs, Resolve(month_path))
    /\ Len(band_paths) = Len(bands)
    /\ fs' = WriteFile(fs, Resolve(output_tiff), StackedRaster)
    /\ log' = Append(log, [op |-> "stack", name |-> month_folder,
                           src |-> Resolve(month_path),
                           out |-> Resolve(output_tiff)])
    /\ idx' = idx + 1
    /\ UNCHANGED <<platform, cwd, phase, listing, runs, fsStart,
                   month, images, band, normalized>>

StackEnd ==
    /\ pc = "stack"
    /\ idx > Len(listing)
    /\ Enter(phase + 1)
    /\ UNCHANGED <<platform, cwd, runs, log, fsStart, month, images, band, normalized>>

\* ---- render loops ----
tiff_file == listing[idx]
tiff_path == join(input_dir, tiff_file)
rgb_output_image == join(rgb_output_dir, replace(tiff_file, TifExt, RgbSuffix))
fc_output_image == join(fc_output_dir, replace(tiff_file, TifExt, FcSuffix))

\* src.read(k) of the raster at tiff_path
read(k) == fs[Resolve(tiff_path)].data[k]

rgb_image_corrected ==
    LET red_normalized == normalize_band(read(3))
        green_normalized == normalize_band(read(2))
        blue_normalized == normalize_band(read(1))
        rgb_image == stack3(red_normalized, green_normalized, blue_normalized)
    IN  apply_brightness_gamma(rgb_image, brightness_factor, gamma)

false_color_image ==
    LET nir_normalized == normalize_band(read(4))
        red_normalized == normalize_band(read(3))
        green_normalized == normalize_band(read(2))
    IN  stack3(nir_normalized, red_normalized, green_normalized)

RgbRender ==
    /\ InLoop("rgb")
    /\ endswith(tiff_file, TifExt)
    /\ fs' = WriteFile(fs, Resolve(rgb_output_image),
                       [kind |-> "png", data |-> rgb_image_corrected])
    /\ log' = Append(log, [op |-> "rgb", name |-> tiff_file,
                           src |-> Resolve(tiff_path),
                           out |-> Resolve(rgb_output_image)])
    /\ idx' = idx + 1
    /\ UNCHANGED <<platform, cwd, phase, listing, runs, fsStart,
                   month, images, band, normalized>>

RgbSkip ==
    /\ InLoop("rgb")
    /\ ~endswith(tiff_file, TifExt)
    /\ idx' = idx + 1
    /\ UNCHANGED <<platform, cwd, fs, phase, listing, runs, log, fsStart,
                   month, images, band, normalized>>

RgbEnd ==
    /\ pc = "rgb"
    /\ idx > Len(listing)
    /\ Enter(phase + 1)
    /\ UNCHANGED <<platform, cwd, runs, log, fsStart, month, images, band, normalized>>

FcRender ==
    /\ InLoop("fc")
    /\ endswith(tiff_file, TifExt)
    /\ fs' = WriteFile(fs, Resolve(fc_output_image),
                       [kind |-> "png", data |-> false_color_image])
    /\ log' = Append(log, [op |-> "fc", name |-> tiff_file,
                           src |-> Resolve(tiff_path),
                           out |-> Resolve(fc_output_image)])
    /\ idx' = idx + 1
    /\ UNCHANGED <<platform, cwd, phase, listing, runs, fsStart,
                   month, images, band, normalized>>

FcSkip ==
    /\ InLoop("fc")
    /\ ~endswith(tiff_file, TifExt)
    /\ idx' = idx + 1
    /\ UNCHANGED <<platform, cwd, fs, phase, listing, runs, log, fsStart,
                   month, images, band, normalized>>

FcEnd ==
    /\ pc = "fc"
    /\ idx > Len(listing)
    /\ Enter(phase + 1)
    /\ UNCHANGED <<platform, cwd, runs, log, fsStart, month, images, band, normalized>>

(***************************************************************************)
(* App.py: the viewer, started once the script has run                     *)
(***************************************************************************)
MonthNames ==
    << <<"J", "a", "n", "u", "a", "r", "y">>,
       <<"F", "e", "b", "r", "u", "a", "r", "y">>,
       <<"M", "a", "r", "c", "h">>,
       <<"A", "p", "r", "i", "l">>,
       <<"M", "a", "y">>,
       <<"J", "u", "n", "e">>,
       <<"J", "u", "l", "y">>,
       <<"A", "u", "g", "u", "s", "t">>,
       <<"S", "e", "p", "t", "e", "m", "b", "e", "r">>,
       <<"O", "c", "t", "o", "b", "e", "r">>,
       <<"N", "o", "v", "e", "m", "b", "e", "r">>,
       <<"D", "e", "c", "e", "m", "b", "e", "r">> >>

\* f"Results\RGB\{month_name}_RGB.png"
viewer_rgb(month_name) ==
    <<"R", "e", "s", "u", "l", "t", "s", "\\", "R", "G", "B", "\\">>
    \o month_name \o RgbSuffix

\* f"Results\FalseColor\{month_name}_FalseColor.png"
viewer_fc(month_name) ==
    <<"R", "e", "s", "u", "l", "t", "s", "\\",
      "F", "a", "l", "s", "e", "C", "o", "l", "o", "r", "\\">>
    \o month_name \o FcSuffix

\* main(): the slider is set to m, the two images are loaded.  Streamlit
\* reruns main from scratch on every slider move, so one move is modelled.
main(m) ==
    /\ pc = "done"
    /\ month = 0
    /\ month' = m
    /\ images' = <<viewer_rgb(MonthNames[m]), viewer_fc(MonthNames[m])>>
    /\ UNCHANGED <<platform, cwd, fs, phase, listing, idx, runs, log, fsStart,
                   band, normalized>>

Next ==
    \/ StartRun
    \/ StackSkipFile
    \/ StackSkipMissing
    \/ StackWrite
    \/ StackEnd
    \/ RgbRender
    \/ RgbSkip
    \/ RgbEnd
    \/ FcRender
    \/ FcSkip
    \/ FcEnd
    \/ \E m \in 1..12 : main(m)

Spec == Init /\ [][Next]_vars


(***************************************************************************)
(* normalize_band on its own: every band of NPix samples in 0..MaxVal      *)
(***************************************************************************)
InitNorm ==
    /\ platform = "posix"
    /\ cwd = script_dir
    /\ fs = <<>>
    /\ phase = 0
    /\ listing = <<>>
    /\ idx = 1
    /\ runs = 0
    /\ log = <<>>
    /\ fsStart = <<>>
    /\ month = 0
    /\ images = <<>>
    /\ band \in [1..NPix -> 0..MaxVal]
    /\ normalized = <<>>

NormalizeStep ==
    /\ band # <<>>
    /\ normalized = <<>>
    /\ normalized' = normalize_band(band)
    /\ UNCHANGED <<platform, cwd, fs, phase, listing, idx, runs, log, fsStart,
                   month, images, band>>

NextNorm == NormalizeStep

SpecNorm == InitNorm /\ [][NextNorm]_vars

(***************************************************************************)
(* Properties                                                              *)
(***************************************************************************)
Events(op) == { i \in 1..Len(log) : log[i].op = op }
Last(s) == s[Len(s)]
Stem(name) == SubSeq(name, 1, Len(name) - Len(TifExt))

BaseDirPath == <<script_dir, <<"d", "a", "t", "a">>, <<"S", "e", "n", "t", "i", "n", "e", "l">>>>
ResultsOfScript == <<script_dir, <<"R", "e", "s", "u", "l", "t", "s">>>>
ResultsOfCwd == <<cwd, <<"R", "e", "s", "u", "l", "t", "s">>>>

\* B2, B3, B4, B8, B11: blue, green, red, NIR, SWIR
FixedOrder ==
    << <<"B", "2", ".", "j", "p", "2">>,
       <<"B", "3", ".", "j", "p", "2">>,
       <<"B", "4", ".", "j", "p", "2">>,
       <<"B", "8", ".", "j", "p", "2">>,
       <<"B", "1", "1", ".", "j", "p", "2">> >>

MonthDirs == { n \in listdir(fs, BaseDirPath) : isdir(fs, BaseDirPath \o <<n>>) }
HasAllBands(n) == \A i \in 1..5 : (BaseDirPath \o <<n, FixedOrder[i]>>) \in DOMAIN fs
RasterOf(n) == ResultsOfScript \o <<n \o TifExt>>
Stacked(n) == \E i \in Events("stack") : log[i].name = n

\* the stacking loop of the current run has ended
StackFinished ==
    /\ runs >= 1
    /\ phase > (CHOOSE k \in 1..Len(Phases) : Phases[k] = "stack")

\* C1: once the stacking loop has ended, a month directory lacking a band
\* has no raster written in this run (its raster path is as it was when the
\* run started), and every month directory with all five bands, also one
\* sorted after a skipped month, has its raster written.
C1_SkipAndContinue ==
    StackFinished =>
        \A n \in MonthDirs :
            IF HasAllBands(n)
            THEN /\ Stacked(n)
                 /\ RasterOf(n) \in DOMAIN fs
                 /\ fs[RasterOf(n)].kind = "tif"
            ELSE /\ ~Stacked(n)
                 /\ (RasterOf(n) \in DOMAIN fs) = (RasterOf(n) \in DOMAIN fsStart)
                 /\ RasterOf(n) \in DOMAIN fs => fs[RasterOf(n)] = fsStart[RasterOf(n)]

C1_Witness ==
    /\ StackFinished
    /\ \E n1 \in MonthDirs : \E n2 \in MonthDirs :
          /\ StrLess(n1, n2)
          /\ ~HasAllBands(n1)
          /\ HasAllBands(n2)
          /\ Stacked(n2)

\* C2: every raster the stacking loop wrote in this run has exactly five
\* bands, and band i holds the samples of the i-th file of B2, B3, B4, B8,
\* B11 of its month directory.
C2_BandOrder ==
    \A i \in Events("stack") :
        LET r == fs[log[i].out]
        IN  /\ log[i].out = RasterOf(log[i].name)
            /\ r.kind = "tif"
            /\ Len(r.data) = 5
            /\ \A k \in 1..5 :
                  r.data[k] = fs[BaseDirPath \o <<log[i].name, FixedOrder[k]>>].data

C2_Witness ==
    /\ Cardinality(Events("stack")) >= 2
    /\ \E i \in Events("stack") :
          (BaseDirPath \o <<log[i].name, ExtraFile>>) \in DOMAIN fs

\* C3: every image a render loop writes for <name>.tif is named
\* <name>_RGB.png in Results/RGB, respectively <name>_FalseColor.png in
\* Results/FalseColor.
C3_OutputNames ==
    \A i \in 1..Len(log) :
        /\ log[i].op = "rgb" =>
              log[i].out = ResultsOfCwd \o <<<<"R", "G", "B">>, Stem(log[i].name) \o RgbSuffix>>
        /\ log[i].op = "fc" =>
              log[i].out = ResultsOfCwd \o <<<<"F", "a", "l", "s", "e", "C", "o", "l", "o", "r">>,
                                             Stem(log[i].name) \o FcSuffix>>

\* the value (v - min) / (max - min) of sample p of band b, as x = <<n, d>>
IsNormalized(x, b, p) ==
    LET mn == Min(Range(b))
        mx == Max(Range(b))
    IN  IF mx = mn
        THEN x[2] = 0
        ELSE x[2] > 0 /\ x[1] * (mx - mn) = x[2] * (b[p] - mn)

\* the value min(1, 1.2 * (v - min) / (max - min)) ** (1 / 2.2)
IsToneMapped(y, b, p) ==
    LET mn == Min(Range(b))
        mx == Max(Range(b))
        seen == 12 * (b[p] - mn)
        cap == 10 * (mx - mn)
    IN  /\ y.exp[2] # 0
        /\ y.exp[1] * 22 = y.exp[2] * 10
        /\ IF mx = mn
           THEN y.base[2] = 0
           ELSE /\ y.base[2] > 0
                /\ y.base[1] * cap = y.base[2] * (IF seen > cap THEN cap ELSE seen)

\* C4: the channels of every true-color image written in this run are the
\* normalized bands 3, 2, 1 of its raster, tone-mapped with 1.2 and 2.2;
\* the channels of every false-color image are the normalized bands 4, 3, 2
\* with no tone mapping.
C4_Channels ==
    \A i \in 1..Len(log) :
        LET r == fs[log[i].src].data
            img == fs[log[i].out].data
        IN  /\ log[i].op = "rgb" =>
                 /\ DOMAIN img = DOMAIN r[1]
                 /\ \A p \in DOMAIN img :
                       /\ IsToneMapped(img[p][1], r[3], p)
                       /\ IsToneMapped(img[p][2], r[2], p)
                       /\ IsToneMapped(img[p][3], r[1], p)
            /\ log[i].op = "fc" =>
                 /\ DOMAIN img = DOMAIN r[1]
                 /\ \A p \in DOMAIN img :
                       /\ IsNormalized(img[p][1], r[4], p)
                       /\ IsNormalized(img[p][2], r[3], p)
                       /\ IsNormalized(img[p][3], r[2], p)

\* a true-color image with a sample the brightness pushes above 1, and a
\* false-color image, have been written
C4_Witness ==
    /\ \E i \in Events("rgb") :
          LET b == fs[log[i].src].data[3]
              mn == Min(Range(b))
              mx == Max(Range(b))
          IN  \E p \in DOMAIN b :
                 /\ b[p] < mx
                 /\ 12 * (b[p] - mn) > 10 * (mx - mn)
                 /\ fs[log[i].out].data[p][1].base = <<1, 1>>
    /\ Events("fc") # {}

\* C5: for a band with max > min, every normalized value lies in [0, 1],
\* the samples equal to the minimum map to 0 and those equal to the maximum
\* map to 1.
C5_NormalizedRange ==
    (normalized # <<>> /\ Max(Range(band)) > Min(Range(band))) =>
        \A p \in DOMAIN band :
            /\ normalized[p][2] > 0
            /\ 0 <= normalized[p][1]
            /\ normalized[p][1] <= normalized[p][2]
            /\ band[p] = Min(Range(band)) => normalized[p][1] = 0
            /\ band[p] = Max(Range(band)) => normalized[p][1] = normalized[p][2]

C5_Witness ==
    /\ normalized # <<>>
    /\ Min(Range(band)) > 0
    /\ \E p \in DOMAIN band :
          /\ Min(Range(band)) < band[p]
          /\ band[p] < Max(Range(band))
          /\ 0 < normalized[p][1]
          /\ normalized[p][1] < normalized[p][2]

\* C6: within a run, no render loop reads a raster file that the stacking
\* loop writes later in that run.
C6_WriteBeforeRead ==
    \A i \in 1..Len(log) : \A j \in 1..Len(log) :
        (i < j /\ log[i].op \in {"rgb", "fc"} /\ log[j].op = "stack")
            => log[i].src # log[j].out

C6_Witness ==
    \E i \in Events("stack") : \E j \in Events("rgb") : \E k \in Events("fc") :
        /\ i < j
        /\ j < k
        /\ log[j].src = log[i].out
        /\ log[k].src = log[i].out

\* C7: a run that follows a completed run on the same inputs leaves every
\* file as the earlier run left it.
C7_RerunSameFiles ==
    (pc = "done" /\ runs >= 2) => fs = fsStart

C7_Witness ==
    /\ pc = "done"
    /\ runs >= 2
    /\ Events("stack") # {}
    /\ Events("rgb") # {}
    /\ Events("fc") # {}

\* C8: the two paths the viewer loads for month m are the files the render
\* loops write for the raster <MonthName>.tif.
C8_ViewerPaths ==
    month # 0 =>
        LET tif == MonthNames[month] \o TifExt
        IN  /\ Resolve(images[1]) = Resolve(join(rgb_output_dir, replace(tif, TifExt, RgbSuffix)))
            /\ Resolve(images[2]) = Resolve(join(fc_output_dir, replace(tif, TifExt, FcSuffix)))

\* C9: at the end of a run, every raster the stacking loop wrote in the run
\* has been read by the true-color loop and by the false-color loop.
C9_SameDirectory ==
    pc = "done" =>
        \A i \in Events("stack") :
            /\ \E j \in Events("rgb") : log[j].src = log[i].out
            /\ \E j \in Events("fc") : log[j].src = log[i].out

\* C10 as stated: at the end of a run, the months with a true-color image
\* written in the run, and those with a false-color image, are the months
\* whose raster the stacking loop wrote in the run.  Stated for the runs
\* started in the script's directory, where the stacking loop and the
\* render loops use one Results directory.
C10_RenderedIffStacked ==
    (pc = "done" /\ cwd = script_dir) =>
        LET stacked == { log[i].name : i \in Events("stack") }
        IN  /\ { Stem(log[i].name) : i \in Events("rgb") } = stacked
            /\ { Stem(log[i].name) : i \in Events("fc") } = stacked

\* C10 as amended: at the end of a run, the rasters rendered by each loop
\* are the .tif files that were in ./Results of the working directory when
\* the run started, together with the rasters written in the run when the
\* working directory is the script's directory.
C10_RenderedIffPresent ==
    pc = "done" =>
        LET before == { f \in listdir(fsStart, ResultsOfCwd) : endswith(f, TifExt) }
            written == IF cwd = script_dir
                       THEN { log[i].name \o TifExt : i \in Events("stack") }
                       ELSE {}
        IN  /\ { log[i].name : i \in Events("rgb") } = before \cup written
            /\ { log[i].name : i \in Events("fc") } = before \cup written

\* a month skipped for a missing band is rendered from a raster left before
C10_Witness ==
    /\ pc = "done"
    /\ cwd = script_dir
    /\ \E n \in MonthDirs :
          /\ ~HasAllBands(n)
          /\ ~Stacked(n)
          /\ \E j \in Events("rgb") : log[j].name = n \o TifExt
          /\ \E j \in Events("fc") : log[j].name = n \o TifExt

====
